---------------------------- MODULE Spec2Model ----------------------------
(***************************************************************************)
(* Model of backend/app.py: the two FastAPI handlers                       *)
(* process_job_description (POST /process-jd/) and process_candidate_cvs   *)
(* (POST /process-cvs/{jd_id}).                                            *)
(*                                                                         *)
(* Uploaded content is a sequence of bytes; extracted text is a sequence   *)
(* of Unicode code points.  Every request owns one slot of the per-request *)
(* variables (the handler's locals); the handlers run step by step so that *)
(* several requests can interleave.                                        *)
(***************************************************************************)
EXTENDS Integers, Sequences, FiniteSets, TLC

(* ----------------------------- bounds --------------------------------- *)
\* longest uploaded content, in bytes
MaxLen == 4
\* number of request slots that may be in flight together
NumReqs == 2

Reqs == 1..NumReqs

(* ------------------------- inputs of a request ------------------------ *)
\* the allow-list with an HTML entry let in
supported_types_with_html ==
    << "text/plain",
       "application/pdf",
       "application/msword",
       "application/vnd.openxmlformats-officedocument.wordprocessingml.document",
       "text/html" >>

\* app.py:39-44
supported_types ==
    << "text/plain",
       "application/pdf",
       "application/msword",
       "application/vnd.openxmlformats-officedocument.wordprocessingml.document" >>

SupportedSet == { supported_types[i] : i \in 1..Len(supported_types) }

\* declared media types a client may send: the allow-list and two others
DeclaredTypes == SupportedSet \cup { "image/png", "text/html" }

\* The byte values uploads are built from:
\*   32  ' '  ASCII space
\*   37  '%'  first byte of a PDF header, also an ordinary character
\*   80  'P'  first byte of a zip (Word) package, also an ordinary character
\*   194, 160 the UTF-8 encoding of U+00A0 (no-break space); either byte alone
\*            is invalid UTF-8
ByteAlphabet == { 32, 37, 80, 194, 160 }

RECURSIVE SeqsUpTo(_, _)
SeqsUpTo(S, n) ==
    IF n = 0 THEN { << >> }
    ELSE LET shorter == SeqsUpTo(S, n - 1)
         IN  shorter \cup { Append(s, b) : s \in { t \in shorter : Len(t) = n - 1 }, b \in S }

Contents == SeqsUpTo(ByteAlphabet, MaxLen)

(* ---------------------------- str.strip() ----------------------------- *)
\* the code points for which Python's str.isspace() is true; str.strip()
\* with no argument removes exactly these from both ends
Whitespace ==
    (9..13) \cup (28..32) \cup { 133, 160, 5760 } \cup (8192..8202)
        \cup { 8232, 8233, 8239, 8287, 12288 }

SetMin(S) == CHOOSE m \in S : \A k \in S : m <= k
SetMax(S) == CHOOSE m \in S : \A k \in S : m >= k

\* str.lstrip() in place of str.strip(): only the leading whitespace goes
strip_leading_only(s) ==
    LET keep == { i \in 1..Len(s) : s[i] \notin Whitespace }
    IN  IF keep = {} THEN << >> ELSE SubSeq(s, SetMin(keep), Len(s))

strip(s) ==
    LET keep == { i \in 1..Len(s) : s[i] \notin Whitespace }
    IN  IF keep = {} THEN << >> ELSE SubSeq(s, SetMin(keep), SetMax(keep))

(* --------------------- results of an extraction step ------------------ *)
Returned(t) == [ raised |-> FALSE, text |-> t, err |-> "" ]
Raised(e)   == [ raised |-> TRUE, text |-> << >>, err |-> e ]

(* ------------------------ bytes.decode("utf-8") ----------------------- *)
\* strict UTF-8 decoding of the one- and two-byte forms (the alphabet holds
\* no lead byte of a longer form): a byte below 128 is its own code point,
\* a lead byte 194..223 takes one continuation byte 128..191, and anything
\* else raises UnicodeDecodeError
RECURSIVE decode_from(_, _, _)
decode_from(b, i, acc) ==
    IF i > Len(b) THEN Returned(acc)
    ELSE IF b[i] < 128 THEN decode_from(b, i + 1, Append(acc, b[i]))
    ELSE IF b[i] >= 194 /\ b[i] <= 223 /\ i + 1 <= Len(b)
            /\ b[i + 1] >= 128 /\ b[i + 1] <= 191
         THEN decode_from(b, i + 2, Append(acc, (b[i] - 192) * 64 + (b[i + 1] - 128)))
    ELSE Raised("'utf-8' codec can't decode byte")

decode_utf8(b) == decode_from(b, 1, << >>)

(* ------------------- pdfminer.high_level.extract_text ------------------ *)
\* The PDF reader is a library outside this repository.  Its grammar is
\* abstracted to: a document is the header byte 37 followed by the bytes of
\* one page of ASCII text; the text of a page is followed by a form feed
\* (code point 12), as extract_text ends every page.  Anything else raises.
extract_text(b) ==
    IF Len(b) = 0 \/ b[1] # 37 THEN Raised("No /Root object! - Is this really a PDF?")
    ELSE IF \E i \in 2..Len(b) : b[i] >= 128 THEN Raised("Invalid PDF content stream")
    ELSE Returned(Append(SubSeq(b, 2, Len(b)), 12))

(* --------------------------- docx.Document ----------------------------- *)
\* The Word reader is a library outside this repository.  Its grammar is
\* abstracted to: a package starts with byte 80; every byte 80 opens a
\* paragraph whose text is the ASCII bytes up to the next 80.  Anything else
\* raises.  paragraphs(b) is doc.paragraphs as the list of the para.text.
RECURSIVE paragraphs_from(_, _, _)
paragraphs_from(b, i, paras) ==
    IF i > Len(b) THEN paras
    ELSE IF b[i] = 80 THEN paragraphs_from(b, i + 1, Append(paras, << >>))
    ELSE paragraphs_from(b, i + 1,
            [ paras EXCEPT ![Len(paras)] = Append(paras[Len(paras)], b[i]) ])

Document(b) ==
    IF Len(b) = 0 \/ b[1] # 80 THEN [ raised |-> TRUE, paragraphs |-> << >>, err |-> "File is not a zip file" ]
    ELSE IF \E i \in 1..Len(b) : b[i] >= 128
         THEN [ raised |-> TRUE, paragraphs |-> << >>, err |-> "Package not found or malformed XML" ]
    ELSE [ raised |-> FALSE, paragraphs |-> paragraphs_from(b, 1, << >>), err |-> "" ]

\* "\n".join(parts): the parts in order with one newline (code point 10)
\* between consecutive parts
RECURSIVE join_newline(_)
join_newline(parts) ==
    IF Len(parts) = 0 THEN << >>
    ELSE IF Len(parts) = 1 THEN parts[1]
    ELSE parts[1] \o << 10 >> \o join_newline(Tail(parts))


(* ------------------- the text a supported type yields ------------------ *)
\* a dispatch that looks at the first byte of the content before the
\* declared type
extract_by_sniffing(content_type, content) ==
    IF content # << >> /\ content[1] = 37
    THEN LET p == extract_text(content)
         IN  IF p.raised THEN p ELSE Returned(strip(p.text))
    ELSE IF content_type = "text/plain"
    THEN LET d == decode_utf8(content)
         IN  IF d.raised THEN d ELSE Returned(strip(d.text))
    ELSE IF content_type = "application/pdf"
    THEN LET p == extract_text(content)
         IN  IF p.raised THEN p ELSE Returned(strip(p.text))
    ELSE LET doc == Document(content)
         IN  IF doc.raised THEN Raised(doc.err)
             ELSE Returned(strip(join_newline(doc.paragraphs)))

\* app.py:52-60, the dispatch on file.content_type inside the try block:
\* the value bound to `text`, or the exception that leaves the block
extract(content_type, content) ==
    IF content_type = "text/plain"
    THEN LET d == decode_utf8(content)
         IN  IF d.raised THEN d ELSE Returned(strip(d.text))
    ELSE IF content_type = "application/pdf"
    THEN LET p == extract_text(content)
         IN  IF p.raised THEN p ELSE Returned(strip(p.text))
    ELSE IF content_type \in
            { "application/msword",
              "application/vnd.openxmlformats-officedocument.wordprocessingml.document" }
    THEN LET doc == Document(content)
         IN  IF doc.raised THEN Raised(doc.err)
             ELSE Returned(strip(join_newline(doc.paragraphs)))
    ELSE Raised("400: Unsupported file format")

\* the reader the dispatch calls on the upload: file.read() for plain text,
\* the PDF or Word parser on file.file otherwise
reader(content_type) ==
    IF content_type = "text/plain" THEN "read"
    ELSE IF content_type = "application/pdf" THEN "extract_text"
    ELSE IF content_type \in
            { "application/msword",
              "application/vnd.openxmlformats-officedocument.wordprocessingml.document" }
    THEN "Document"
    ELSE "none"

(* ------------------------------ responses ------------------------------ *)
NoBody == [ data |-> "", id |-> 0 ]

\* raise HTTPException(status_code=..., detail=...)
HTTPException(status_code, detail) ==
    [ status |-> status_code, detail |-> detail, body |-> NoBody ]

\* a handler that returns a value answers 200 with that value
Ok(body) == [ status |-> 200, detail |-> "", body |-> body ]

NoResponse == [ status |-> 0, detail |-> "", body |-> NoBody ]

unsupported_response == HTTPException(400, "Unsupported file format")
extraction_failed_response == HTTPException(400, "Failed to extract text from file")
empty_response == HTTPException(400, "File content is empty")

\* no except clause: the exception leaves the handler and the framework
\* answers for it
on_extraction_error_unhandled(e) == HTTPException(500, "Internal Server Error")

\* an except clause that puts the exception's text in the answer
on_extraction_error_with_text(e) ==
    HTTPException(400, "Failed to extract text from file: " \o e)

\* the except clause of the extraction block: the answer to exception text e
on_extraction_error(e) == extraction_failed_response

\* the collaborator's failure answered as a client error carrying its text
internal_error_as_400(s) == HTTPException(400, s)

\* the except clause around the collaborator call: the answer to str(e) = s
internal_error(s) == HTTPException(500, "Internal server error: " \o s)

(* --------------------- the collaborators' behaviours ------------------- *)
\* summarize_job_description and process_cvs live outside this file: a call
\* returns a value or raises.  str is what str(e) gives for the exception;
\* for an HTTPException that is "<status>: <detail>" or, with older
\* Starlette releases, the empty string.
CollabReturn == [ raised |-> FALSE, cls |-> "", status |-> 0, detail |-> "", str |-> "",
                  value |-> [ data |-> "summary", id |-> 7 ] ]

CollabRaise(cls, status, detail, str) ==
    [ raised |-> TRUE, cls |-> cls, status |-> status, detail |-> detail, str |-> str,
      value |-> NoBody ]

CollabOutcomes ==
    { CollabReturn,
      CollabRaise("Exception", 0, "", "database is locked"),
      CollabRaise("Exception", 0, "", "Unsupported file format"),
      CollabRaise("HTTPException", 404, "Job description not found",
                  "404: Job description not found"),
      CollabRaise("HTTPException", 400, "Unsupported file format", "") }

\* job-description identifiers a client may name in /process-cvs/{jd_id}
JdIds == { 7, 8 }

(* ------------------------------- state --------------------------------- *)
VARIABLES
    pc,        \* where each request's handler stands
    endpoint,  \* "jd", "cvs" or "none" for a free slot
    ctype,     \* file.content_type of the upload
    content,   \* the bytes of the upload
    jd_id,     \* the path parameter of /process-cvs/{jd_id}
    text,      \* the handler's local `text`
    response,  \* what the client receives
    trace,     \* the checks and reader calls the handler has made, in order
    calls,     \* the arguments summarize_job_description was called with
    caught,    \* the exception the handler caught, if any
    returned,  \* the value the collaborator returned, if it did
    logged,    \* the request's log lines
    prev       \* one earlier job-description request: its inputs and outcome

vars == << pc, endpoint, ctype, content, jd_id, text, response, trace, calls,
           caught, returned, logged, prev >>

NoException == [ raised |-> FALSE, cls |-> "", status |-> 0, detail |-> "", str |-> "",
                 value |-> NoBody ]
NoPrev == [ set |-> FALSE, ctype |-> "", content |-> << >>, kind |-> "", text |-> << >> ]

Init ==
    /\ pc = [ r \in Reqs |-> "idle" ]
    /\ endpoint = [ r \in Reqs |-> "none" ]
    /\ ctype = [ r \in Reqs |-> "" ]
    /\ content = [ r \in Reqs |-> << >> ]
    /\ jd_id = [ r \in Reqs |-> 0 ]
    /\ text = [ r \in Reqs |-> << >> ]
    /\ response = [ r \in Reqs |-> NoResponse ]
    /\ trace = [ r \in Reqs |-> << >> ]
    /\ calls = [ r \in Reqs |-> << >> ]
    /\ caught = [ r \in Reqs |-> NoException ]
    /\ returned = [ r \in Reqs |-> NoBody ]
    /\ logged = [ r \in Reqs |-> << >> ]
    /\ prev = NoPrev

Log(r, level, msg) == logged' = [ logged EXCEPT ![r] = Append(@, << level, msg >>) ]

(* ------------------- POST /process-jd/ (app.py:37-75) ------------------ *)
\* a request arrives with its upload, one of `uploads`
StartJd(r, uploads) ==
    /\ pc[r] = "idle"
    /\ \E u \in uploads :
          /\ ctype' = [ ctype EXCEPT ![r] = u.ctype ]
          /\ content' = [ content EXCEPT ![r] = u.content ]
    /\ pc' = [ pc EXCEPT ![r] = "jd_check" ]
    /\ endpoint' = [ endpoint EXCEPT ![r] = "jd" ]
    /\ UNCHANGED << jd_id, text, response, trace, calls, caught, returned, logged, prev >>

\* app.py:46-48
JdCheck(r) ==
    /\ pc[r] = "jd_check"
    /\ trace' = [ trace EXCEPT ![r] = Append(@, "allow_list") ]
    /\ IF ctype[r] \notin SupportedSet
       THEN /\ Log(r, "warning", "Unsupported file type: " \o ctype[r])
            /\ response' = [ response EXCEPT ![r] = unsupported_response ]
            /\ pc' = [ pc EXCEPT ![r] = "done" ]
       ELSE /\ pc' = [ pc EXCEPT ![r] = "jd_extract" ]
            /\ UNCHANGED << response, logged >>
    /\ UNCHANGED << endpoint, ctype, content, jd_id, text, calls, caught, returned, prev >>

\* extraction behind a cache keyed by the declared type alone
JdExtractCached(r) ==
    /\ pc[r] = "jd_extract"
    /\ trace' = [ trace EXCEPT ![r] = Append(@, reader(ctype[r])) ]
    /\ LET res == IF prev.set /\ prev.ctype = ctype[r] /\ prev.kind = "Success"
                  THEN Returned(prev.text)
                  ELSE extract(ctype[r], content[r])
           info == << "info", "Processing file (type: " \o ctype[r] \o ")" >>
       IN  IF res.raised
           THEN /\ logged' = [ logged EXCEPT ![r] =
                        @ \o << info, << "error", "Text extraction failed: " \o res.err >> >> ]
                /\ caught' = [ caught EXCEPT ![r] = CollabRaise("Exception", 0, "", res.err) ]
                /\ response' = [ response EXCEPT ![r] = on_extraction_error(res.err) ]
                /\ pc' = [ pc EXCEPT ![r] = "done" ]
                /\ UNCHANGED text
           ELSE /\ logged' = [ logged EXCEPT ![r] = Append(@, info) ]
                /\ text' = [ text EXCEPT ![r] = res.text ]
                /\ pc' = [ pc EXCEPT ![r] = "jd_validate" ]
                /\ UNCHANGED << caught, response >>
    /\ UNCHANGED << endpoint, ctype, content, jd_id, calls, returned, prev >>

\* `text` as one module-level variable that every request writes
JdExtractShared(r) ==
    /\ pc[r] = "jd_extract"
    /\ trace' = [ trace EXCEPT ![r] = Append(@, reader(ctype[r])) ]
    /\ LET res == extract(ctype[r], content[r])
           info == << "info", "Processing file (type: " \o ctype[r] \o ")" >>
       IN  IF res.raised
           THEN /\ logged' = [ logged EXCEPT ![r] =
                        @ \o << info, << "error", "Text extraction failed: " \o res.err >> >> ]
                /\ caught' = [ caught EXCEPT ![r] = CollabRaise("Exception", 0, "", res.err) ]
                /\ response' = [ response EXCEPT ![r] = on_extraction_error(res.err) ]
                /\ pc' = [ pc EXCEPT ![r] = "done" ]
                /\ UNCHANGED text
           ELSE /\ logged' = [ logged EXCEPT ![r] = Append(@, info) ]
                /\ text' = [ q \in Reqs |-> res.text ]
                /\ pc' = [ pc EXCEPT ![r] = "jd_validate" ]
                /\ UNCHANGED << caught, response >>
    /\ UNCHANGED << endpoint, ctype, content, jd_id, calls, returned, prev >>

\* app.py:50-63
JdExtract(r) ==
    /\ pc[r] = "jd_extract"
    /\ trace' = [ trace EXCEPT ![r] = Append(@, reader(ctype[r])) ]
    /\ LET res == extract(ctype[r], content[r])
           info == << "info", "Processing file (type: " \o ctype[r] \o ")" >>
       IN  IF res.raised
           THEN /\ logged' = [ logged EXCEPT ![r] =
                        @ \o << info, << "error", "Text extraction failed: " \o res.err >> >> ]
                /\ caught' = [ caught EXCEPT ![r] = CollabRaise("Exception", 0, "", res.err) ]
                /\ response' = [ response EXCEPT ![r] = on_extraction_error(res.err) ]
                /\ pc' = [ pc EXCEPT ![r] = "done" ]
                /\ UNCHANGED text
           ELSE /\ logged' = [ logged EXCEPT ![r] = Append(@, info) ]
                /\ text' = [ text EXCEPT ![r] = res.text ]
                /\ pc' = [ pc EXCEPT ![r] = "jd_validate" ]
                /\ UNCHANGED << caught, response >>
    /\ UNCHANGED << endpoint, ctype, content, jd_id, calls, returned, prev >>

\* the empty check without its raise: the handler logs, and goes on
JdValidateNoRaise(r) ==
    /\ pc[r] = "jd_validate"
    /\ trace' = [ trace EXCEPT ![r] = Append(@, "empty_check") ]
    /\ IF text[r] = << >>
       THEN /\ Log(r, "warning", "File content is empty")
       ELSE /\ UNCHANGED logged
    /\ pc' = [ pc EXCEPT ![r] = "jd_summarize" ]
    /\ UNCHANGED << endpoint, ctype, content, jd_id, text, response, calls, caught,
                    returned, prev >>

\* app.py:65-67
JdValidate(r) ==
    /\ pc[r] = "jd_validate"
    /\ trace' = [ trace EXCEPT ![r] = Append(@, "empty_check") ]
    /\ IF text[r] = << >>
       THEN /\ Log(r, "warning", "File content is empty")
            /\ response' = [ response EXCEPT ![r] = empty_response ]
            /\ pc' = [ pc EXCEPT ![r] = "done" ]
       ELSE /\ pc' = [ pc EXCEPT ![r] = "jd_summarize" ]
            /\ UNCHANGED << response, logged >>
    /\ UNCHANGED << endpoint, ctype, content, jd_id, text, calls, caught, returned, prev >>

\* app.py:69-75; o is what summarize_job_description(text) does
JdSummarize(r, o) ==
    /\ pc[r] = "jd_summarize"
    /\ calls' = [ calls EXCEPT ![r] = Append(@, text[r]) ]
    /\ IF o.raised
       THEN /\ Log(r, "error", "JD processing failed: " \o o.str)
            /\ caught' = [ caught EXCEPT ![r] = o ]
            /\ response' = [ response EXCEPT ![r] = internal_error(o.str) ]
            /\ UNCHANGED returned
       ELSE /\ Log(r, "info", "Processed JD ID")
            /\ returned' = [ returned EXCEPT ![r] = o.value ]
            /\ response' = [ response EXCEPT ![r] =
                    Ok([ data |-> o.value.data, id |-> o.value.id ]) ]
            /\ UNCHANGED caught
    /\ pc' = [ pc EXCEPT ![r] = "done" ]
    /\ UNCHANGED << endpoint, ctype, content, jd_id, text, trace, prev >>

(* -------------- POST /process-cvs/{jd_id} (app.py:77-88) --------------- *)
\* app.py:78-79
StartCvs(r, j) ==
    /\ pc[r] = "idle"
    /\ pc' = [ pc EXCEPT ![r] = "cv_call" ]
    /\ endpoint' = [ endpoint EXCEPT ![r] = "cvs" ]
    /\ jd_id' = [ jd_id EXCEPT ![r] = j ]
    /\ Log(r, "info", "Processing CV(s) for JD ID")
    /\ UNCHANGED << ctype, content, text, response, trace, calls, caught, returned, prev >>

\* one except clause for every exception, as in process_job_description
on_cvs_error_all_500(o) == internal_error(o.str)

\* the except clauses of app.py:83-88: the answer to exception o
on_cvs_error(o) ==
    IF o.cls = "HTTPException" THEN HTTPException(o.status, o.detail)
    ELSE internal_error(o.str)

\* app.py:80-88; o is what process_cvs(jd_id, files) does
CvCall(r, o) ==
    /\ pc[r] = "cv_call"
    /\ IF o.raised
       THEN /\ Log(r, "error",
                   IF o.cls = "HTTPException" THEN "HTTP error: " \o o.str
                   ELSE "CV processing error: " \o o.str)
            /\ caught' = [ caught EXCEPT ![r] = o ]
            /\ response' = [ response EXCEPT ![r] = on_cvs_error(o) ]
            /\ UNCHANGED returned
       ELSE /\ returned' = [ returned EXCEPT ![r] = o.value ]
            /\ response' = [ response EXCEPT ![r] = Ok(o.value) ]
            /\ UNCHANGED << caught, logged >>
    /\ pc' = [ pc EXCEPT ![r] = "done" ]
    /\ UNCHANGED << endpoint, ctype, content, jd_id, text, trace, calls, prev >>

(* ----------------------- the classified outcome ------------------------ *)
\* the failure kind a rejection of /process-jd/ stands for
KindOf(resp) ==
    IF resp = unsupported_response THEN "UnsupportedType"
    ELSE IF resp = extraction_failed_response THEN "ExtractionError"
    ELSE IF resp = empty_response THEN "EmptyContent"
    ELSE "none"

\* normalization of request r has ended: the text is ready for (or was given
\* to) the summarizer, or the request was rejected before that
Normalized(r) ==
    /\ endpoint[r] = "jd"
    /\ pc[r] \in { "jd_summarize", "done" }

Succeeded(r) == pc[r] = "jd_summarize" \/ calls[r] # << >>

Outcome(r) ==
    IF Succeeded(r) THEN [ kind |-> "Success", text |-> text[r] ]
    ELSE [ kind |-> KindOf(response[r]), text |-> << >> ]

(* --------------------------- end of a request -------------------------- *)
Clear(r) ==
    /\ pc' = [ pc EXCEPT ![r] = "idle" ]
    /\ endpoint' = [ endpoint EXCEPT ![r] = "none" ]
    /\ ctype' = [ ctype EXCEPT ![r] = "" ]
    /\ content' = [ content EXCEPT ![r] = << >> ]
    /\ jd_id' = [ jd_id EXCEPT ![r] = 0 ]
    /\ text' = [ text EXCEPT ![r] = << >> ]
    /\ response' = [ response EXCEPT ![r] = NoResponse ]
    /\ trace' = [ trace EXCEPT ![r] = << >> ]
    /\ calls' = [ calls EXCEPT ![r] = << >> ]
    /\ caught' = [ caught EXCEPT ![r] = NoException ]
    /\ returned' = [ returned EXCEPT ![r] = NoBody ]
    /\ logged' = [ logged EXCEPT ![r] = << >> ]

\* the response is sent and the handler's scope is discarded
Finish(r) ==
    /\ pc[r] = "done"
    /\ Clear(r)
    /\ UNCHANGED prev

\* the same, the request being the one an observer keeps for comparison
FinishObserved(r) ==
    /\ pc[r] = "done"
    /\ endpoint[r] = "jd"
    /\ prev' = [ set |-> TRUE, ctype |-> ctype[r], content |-> content[r],
                 kind |-> Outcome(r).kind, text |-> Outcome(r).text ]
    /\ Clear(r)

(* ---------------------------- specifications --------------------------- *)
Uploads == [ ctype : DeclaredTypes, content : Contents ]

\* one request at a time, any upload within the bounds
Next ==
    \/ StartJd(1, Uploads)
    \/ JdCheck(1)
    \/ JdExtract(1)
    \/ JdValidate(1)
    \/ \E o \in CollabOutcomes : JdSummarize(1, o)
    \/ \E j \in JdIds : StartCvs(1, j)
    \/ \E o \in CollabOutcomes : CvCall(1, o)
    \/ Finish(1)

Spec == Init /\ [][Next]_vars

\* uploads of the interleaved requests: one rejected for its type, and for
\* the supported types one of each outcome
ParUploads ==
    { [ ctype |-> "image/png", content |-> << 80 >> ],
      [ ctype |-> "text/plain", content |-> << 80 >> ],
      [ ctype |-> "text/plain", content |-> << 32 >> ],
      [ ctype |-> "text/plain", content |-> << 160 >> ],
      [ ctype |-> "application/pdf", content |-> << 37, 80 >> ],
      [ ctype |-> "application/msword", content |-> << 80, 37 >> ] }

\* requests in every slot, their steps interleaved
NextPar ==
    \E r \in Reqs :
        \/ StartJd(r, ParUploads)
        \/ JdCheck(r)
        \/ JdExtract(r)
        \/ JdValidate(r)
        \/ \E o \in CollabOutcomes : JdSummarize(r, o)
        \/ \E j \in JdIds : StartCvs(r, j)
        \/ \E o \in CollabOutcomes : CvCall(r, o)
        \/ Finish(r)
        \/ FinishObserved(r)

SpecPar == Init /\ [][NextPar]_vars

(* =============================== claims =============================== *)
\* the four-entry allow-list, as the specification lists it
AllowList ==
    { "text/plain", "application/pdf", "application/msword",
      "application/vnd.openxmlformats-officedocument.wordprocessingml.document" }

WordTypes ==
    { "application/msword",
      "application/vnd.openxmlformats-officedocument.wordprocessingml.document" }

ReaderEvents == { "read", "extract_text", "Document" }

ReaderCalls(r) == { i \in 1..Len(trace[r]) : trace[r][i] \in ReaderEvents }

Rejection(detail) == [ status |-> 400, detail |-> detail, body |-> NoBody ]

UnsupportedTypeRejection == Rejection("Unsupported file format")
ExtractionErrorRejection == Rejection("Failed to extract text from file")
EmptyContentRejection == Rejection("File content is empty")

ExtractionRejections ==
    { UnsupportedTypeRejection, ExtractionErrorRejection, EmptyContentRejection }

IsJd(r) == endpoint[r] = "jd"
IsCvs(r) == endpoint[r] = "cvs"

\* the text the extractor of declared type t gives for content c before it
\* is trimmed, or the fact that the extractor raises
RawText(t, c) ==
    IF t = "text/plain" THEN decode_utf8(c)
    ELSE IF t = "application/pdf" THEN extract_text(c)
    ELSE LET doc == Document(c)
         IN  IF doc.raised THEN Raised(doc.err) ELSE Returned(join_newline(doc.paragraphs))

AllWhitespace(s) == \A i \in 1..Len(s) : s[i] \in Whitespace

\* t is s without its leading and trailing whitespace
IsTrimOf(t, s) ==
    \E i \in 1..(Len(s) + 1), j \in 0..Len(s) :
        /\ \A k \in 1..(i - 1) : s[k] \in Whitespace
        /\ \A k \in (j + 1)..Len(s) : s[k] \in Whitespace
        /\ t = SubSeq(s, i, j)
        /\ t # << >> => t[1] \notin Whitespace /\ t[Len(t)] \notin Whitespace
        /\ t = << >> => AllWhitespace(s)

\* the number of characters before paragraph k in the joined text
RECURSIVE StartOf(_, _)
StartOf(ps, k) == IF k = 1 THEN 0 ELSE StartOf(ps, k - 1) + Len(ps[k - 1]) + 1

\* s is the paragraphs ps in order with one newline between consecutive ones
IsJoinOf(s, ps) ==
    IF ps = << >> THEN s = << >>
    ELSE /\ Len(s) = StartOf(ps, Len(ps)) + Len(ps[Len(ps)])
         /\ \A k \in 1..Len(ps) :
               /\ \A i \in 1..Len(ps[k]) : s[StartOf(ps, k) + i] = ps[k][i]
               /\ k > 1 => s[StartOf(ps, k)] = 10

\* C1: a request whose declared type is outside the four-entry allow-list
\* never gets past the allow-list check: no reader is called on its upload,
\* the summarizer is never called, and it ends in the 400 'Unsupported file
\* format' rejection.
C1_UnsupportedRejectedFirst ==
    \A r \in Reqs :
        IsJd(r) /\ ctype[r] \notin AllowList =>
            /\ pc[r] \in { "jd_check", "done" }
            /\ ReaderCalls(r) = {}
            /\ calls[r] = << >>
            /\ pc[r] = "done" =>
                  /\ response[r] = UnsupportedTypeRejection
                  /\ trace[r] = << "allow_list" >>

C1_Witness ==
    \E r \in Reqs :
        /\ IsJd(r) /\ ctype[r] \notin AllowList /\ content[r] # << >>
        /\ pc[r] = "done" /\ response[r] = UnsupportedTypeRejection

\* C2: whenever the text is handed (or about to be handed) to the summarizer
\* it is non-empty and neither starts nor ends with whitespace; and a
\* supported upload whose extraction raises nothing but yields only
\* whitespace ends in the EmptyContent rejection, the summarizer not called.
C2_SuccessTextTrimmedNonEmpty ==
    \A r \in Reqs :
        /\ IsJd(r) /\ Succeeded(r) =>
              /\ text[r] # << >>
              /\ text[r][1] \notin Whitespace
              /\ text[r][Len(text[r])] \notin Whitespace
              /\ \A i \in 1..Len(calls[r]) : calls[r][i] = text[r]
        /\ ( /\ IsJd(r) /\ pc[r] = "done" /\ ctype[r] \in AllowList
             /\ ~RawText(ctype[r], content[r]).raised
             /\ AllWhitespace(RawText(ctype[r], content[r]).text) ) =>
              /\ response[r] = EmptyContentRejection
              /\ calls[r] = << >>

C2_Witness ==
    \E r \in Reqs :
        /\ IsJd(r) /\ pc[r] = "done" /\ ctype[r] = "text/plain"
        /\ Len(content[r]) >= 2
        /\ response[r] = EmptyContentRejection

\* C3: for a supported type, an exception raised while decoding or parsing
\* is caught: the request ends in the 400 'Failed to extract text from file'
\* rejection, it never reaches the empty check or the summarizer, and no
\* other answer is given for it.
C3_ExtractionExceptionCaught ==
    \A r \in Reqs :
        IsJd(r) /\ ctype[r] \in AllowList /\ RawText(ctype[r], content[r]).raised =>
            /\ pc[r] \in { "jd_check", "jd_extract", "done" }
            /\ calls[r] = << >>
            /\ pc[r] = "done" =>
                  /\ caught[r].raised
                  /\ caught[r].str = RawText(ctype[r], content[r]).err
                  /\ response[r] = ExtractionErrorRejection

C3_Witness ==
    \E r \in Reqs :
        /\ IsJd(r) /\ pc[r] = "done" /\ ctype[r] = "application/pdf"
        /\ caught[r].raised /\ calls[r] = << >>
        /\ response[r] = ExtractionErrorRejection

\* the collaborator of request r was called and raised
CollabRaisedIn(r) ==
    /\ pc[r] = "done"
    /\ caught[r].raised
    /\ IsCvs(r) \/ (IsJd(r) /\ calls[r] # << >>)

\* the collaborator of request r was called and returned
CollabReturnedIn(r) ==
    /\ pc[r] = "done"
    /\ ~caught[r].raised
    /\ IsCvs(r) \/ (IsJd(r) /\ calls[r] # << >>)

\* C4, as stated: whatever the collaborator raises, the answer is none of
\* the three extraction-failure rejections and does not depend on the
\* exception's text, so two requests to the same endpoint whose collaborator
\* raised get the same answer.
C4_GenericInternalError ==
    \A r \in Reqs :
        CollabRaisedIn(r) =>
            /\ response[r] \notin ExtractionRejections
            /\ \A q \in Reqs :
                  CollabRaisedIn(q) /\ endpoint[q] = endpoint[r] =>
                      response[q] = response[r]

\* C4, amended: an exception from summarize_job_description, and an
\* exception other than HTTPException from process_cvs, is answered with
\* status 500 and the detail 'Internal server error: ' followed by the
\* exception's text, which is none of the three extraction-failure
\* rejections; an HTTPException from process_cvs is answered with its own
\* status and detail.
C4_InternalErrorCarriesText ==
    \A r \in Reqs :
        CollabRaisedIn(r) =>
            IF IsCvs(r) /\ caught[r].cls = "HTTPException"
            THEN response[r] =
                    [ status |-> caught[r].status, detail |-> caught[r].detail,
                      body |-> NoBody ]
            ELSE /\ response[r] =
                       [ status |-> 500,
                         detail |-> "Internal server error: " \o caught[r].str,
                         body |-> NoBody ]
                 /\ response[r] \notin ExtractionRejections

C4_Witness ==
    \E r, q \in Reqs :
        /\ r # q
        /\ IsJd(r) /\ CollabRaisedIn(r) /\ caught[r].str = "Unsupported file format"
        /\ IsJd(q) /\ CollabRaisedIn(q) /\ caught[q].str = "database is locked"
        /\ response[r].status = 500 /\ response[q].status = 500
        /\ response[r] # response[q]

\* C5: each of the three extraction failures has its own fixed answer: the
\* answer of a rejected request is decided by the step that rejected it,
\* the three answers differ from one another, and the ExtractionError answer
\* is the same whatever exception was caught.
C5_RejectionPerKind ==
    /\ Cardinality(ExtractionRejections) = 3
    /\ \A r \in Reqs :
          IsJd(r) /\ pc[r] = "done" /\ calls[r] = << >> =>
              /\ Len(trace[r]) = 1 => response[r] = UnsupportedTypeRejection
              /\ Len(trace[r]) = 2 =>
                    /\ caught[r].raised
                    /\ response[r] = ExtractionErrorRejection
                    /\ response[r].detail # caught[r].str
              /\ Len(trace[r]) = 3 => response[r] = EmptyContentRejection
              /\ Len(trace[r]) \in 1..3

C5_Witness ==
    \E r \in Reqs :
        /\ IsJd(r) /\ pc[r] = "done" /\ calls[r] = << >>
        /\ Len(trace[r]) = 2 /\ ctype[r] \in WordTypes
        /\ caught[r].str = "Package not found or malformed XML"
        /\ response[r] = ExtractionErrorRejection

\* C6: the text of a successful normalization is the trimmed text of the
\* extractor that the declared type names: the UTF-8 decoding for
\* text/plain, the PDF extractor for application/pdf, and for both Word
\* types the paragraphs in order with one newline between consecutive ones.
C6_TextIsTrimOfDeclaredExtractor ==
    \A r \in Reqs :
        IsJd(r) /\ Succeeded(r) =>
            /\ ctype[r] \in AllowList
            /\ ctype[r] = "text/plain" =>
                  /\ ~decode_utf8(content[r]).raised
                  /\ IsTrimOf(text[r], decode_utf8(content[r]).text)
            /\ ctype[r] = "application/pdf" =>
                  /\ ~extract_text(content[r]).raised
                  /\ IsTrimOf(text[r], extract_text(content[r]).text)
            /\ ctype[r] \in WordTypes =>
                  /\ ~Document(content[r]).raised
                  /\ LET ps == Document(content[r]).paragraphs
                         joined == join_newline(ps)
                     IN  /\ IsJoinOf(joined, ps)
                         /\ IsTrimOf(text[r], joined)

C6_Witness ==
    \E r \in Reqs :
        /\ IsJd(r) /\ Succeeded(r) /\ ctype[r] \in WordTypes
        /\ Document(content[r]).paragraphs = << << 37 >>, << 37 >> >>
        /\ text[r] = << 37, 10, 37 >>

\* the outcome of a job-description request that runs alone
Alone(t, c) ==
    IF t \notin AllowList THEN [ kind |-> "UnsupportedType", text |-> << >> ]
    ELSE IF RawText(t, c).raised THEN [ kind |-> "ExtractionError", text |-> << >> ]
    ELSE IF AllWhitespace(RawText(t, c).text) THEN [ kind |-> "EmptyContent", text |-> << >> ]
    ELSE [ kind |-> "Success", text |-> strip(RawText(t, c).text) ]

\* C7: two normalizations of the same declared type and content end in the
\* same outcome, whether they are in flight together or one of them ended
\* earlier with other requests handled since.
C7_SameInputsSameOutcome ==
    /\ \A r, q \in Reqs :
          ( /\ Normalized(r) /\ Normalized(q)
            /\ ctype[r] = ctype[q] /\ content[r] = content[q] ) =>
              Outcome(r) = Outcome(q)
    /\ \A r \in Reqs :
          ( /\ Normalized(r) /\ prev.set
            /\ ctype[r] = prev.ctype /\ content[r] = prev.content ) =>
              Outcome(r) = [ kind |-> prev.kind, text |-> prev.text ]

C7_Witness ==
    \E r, q \in Reqs :
        /\ r # q /\ prev.set
        /\ Normalized(r) /\ pc[r] = "done"
        /\ ctype[r] = prev.ctype /\ content[r] = prev.content
        /\ Outcome(r).kind = "Success" /\ prev.kind = "Success"
        /\ Normalized(q) /\ Outcome(q).kind = "EmptyContent"

\* C8: in one request the summarizer is called at most once, and only after
\* the allow-list check, one reader call and the empty check, in that order,
\* with the non-empty text the empty check saw; a request that got one of
\* the three extraction-failure rejections has ended, its reader was called
\* at most once and its summarizer never.
C8_FailuresTerminalSummarizeOnce ==
    \A r \in Reqs :
        IsJd(r) =>
            /\ Len(calls[r]) <= 1
            /\ Cardinality(ReaderCalls(r)) <= 1
            /\ calls[r] # << >> =>
                  /\ Len(trace[r]) = 3
                  /\ trace[r][1] = "allow_list"
                  /\ trace[r][2] \in ReaderEvents
                  /\ trace[r][3] = "empty_check"
                  /\ calls[r] = << text[r] >>
                  /\ text[r] # << >>
                  /\ pc[r] = "done"
            /\ response[r] \in ExtractionRejections =>
                  /\ pc[r] = "done"
                  /\ calls[r] = << >>
            /\ pc[r] = "jd_summarize" => trace[r][Len(trace[r])] = "empty_check"

C8_Witness ==
    \E r \in Reqs :
        /\ IsJd(r) /\ pc[r] = "done" /\ Len(calls[r]) = 1
        /\ Len(content[r]) > Len(text[r]) /\ calls[r] = << text[r] >>

\* C9: with the steps of several requests interleaved, the outcome of each
\* request is the outcome it has when it runs alone.
C9_OutcomeAsIfAlone ==
    \A r \in Reqs :
        Normalized(r) => Outcome(r) = Alone(ctype[r], content[r])

C9_Witness ==
    \E r, q \in Reqs :
        /\ r # q
        /\ pc[r] = "jd_summarize" /\ Outcome(r).kind = "Success"
        /\ pc[q] = "jd_validate" /\ text[q] = << >>

\* C10: an HTTPException from process_cvs is answered with its own status
\* and detail and any other exception from it with status 500; every
\* exception from summarize_job_description, an HTTPException with a 4xx
\* status included, is answered with status 500; a collaborator that
\* returns has its value as the answer.
C10_HttpExceptionPerEndpoint ==
    \A r \in Reqs :
        /\ CollabRaisedIn(r) /\ IsCvs(r) /\ caught[r].cls = "HTTPException" =>
              /\ response[r].status = caught[r].status
              /\ response[r].detail = caught[r].detail
        /\ CollabRaisedIn(r) /\ IsCvs(r) /\ caught[r].cls # "HTTPException" =>
              response[r].status = 500
        /\ CollabRaisedIn(r) /\ IsJd(r) => response[r].status = 500
        /\ CollabReturnedIn(r) /\ IsCvs(r) =>
              response[r] = [ status |-> 200, detail |-> "", body |-> returned[r] ]
        /\ CollabReturnedIn(r) /\ IsJd(r) =>
              /\ response[r].status = 200
              /\ response[r].body.data = returned[r].data
              /\ response[r].body.id = returned[r].id
        /\ pc[r] = "done" /\ (IsCvs(r) \/ calls[r] # << >>) =>
              returned[r] # NoBody \/ caught[r].raised

C10_Witness ==
    \E r \in Reqs :
        /\ IsCvs(r) /\ CollabRaisedIn(r)
        /\ caught[r].cls = "HTTPException" /\ caught[r].status = 404
        /\ response[r].status = 404
        /\ response[r].detail = "Job description not found"

=============================================================================
